---- MODULE Spec2Model ----
(***************************************************************************)
(* Webhook delivery subsystem (src/src/services/WebhookService.js) and the *)
(* asset producer's event creation (AssetService.triggerWebhook).          *)
(*                                                                         *)
(* Time is kept relative to the current instant: every stored timestamp    *)
(* (nextRetry) and every timer is the number of milliseconds from now, and *)
(* Tick lets one quantum pass by lowering all of them.  Now is therefore   *)
(* offset 0.  A processWebhook call is a "proc": the webhookEvent object   *)
(* it was handed (id and attempts as read at that time) plus its position  *)
(* between the awaits of sendWebhook / processWebhook.                     *)
(***************************************************************************)
EXTENDS Integers, FiniteSets, Sequences, Bags, TLC

VARIABLES
    events,     \* the webhookEvent table: id -> row
    procs,      \* bag of processWebhook calls in progress and scheduled retry timers
    pollLeft,   \* ms until the next setInterval(processPendingWebhooks) tick
    dest,       \* how the destination endpoint answers
    done,       \* delivery attempts whose outcome was written, per event (capped)
    replies,    \* what the producer's call that created the event has got back
    restarts,   \* how many times the process was terminated and started again
    call,       \* the last maintenance or verification call, with its arguments
    result,     \* what that call returned (or the status the route answered)
    subscriptions   \* rows of the webhook_subscriptions table

vars == <<events, procs, pollLeft, dest, done, replies, restarts, call, result, subscriptions>>

----------------------------------------------------------------------------
(* Bounds of the exploration *)
MaxEvents == 1      \* events created in a run
MaxProcs == 2       \* processWebhook calls and retry timers alive together
MaxCount == 4       \* cap of the counter of recorded attempts
MaxAttempts == 4    \* largest attempts value a row is taken to
PastHorizon == 1    \* quanta after which a past timestamp is just "past"
MaxRows == 12       \* rows of the table in the due-query specification
MaxRestarts == 1    \* terminations of the process in a run
MaxCleanupRows == 3 \* rows of the table in the cleanup specification
MacBytes == 2       \* bytes of a digest (32 for SHA-256)
MaxSubscriptions == 2   \* rows of webhook_subscriptions
CycleRows == 3      \* rows due together in the poll-cycle specification

(* Program constants *)
maxRetries == 3
baseDelay == 1000
PollInterval == 30000
Take == 10
DefaultDaysOld == 30
DefaultAttempts == 0

Quantum == baseDelay          \* time advances in steps of the smallest delay
Now == 0

\* no maintenance or verification call was made
NoCall == [op |-> "none"]
NoResult == "none"
Null == {}              \* a nullable timestamp is Null or At(t)
At(t) == {t}

Min(a, b) == IF a < b THEN a ELSE b
Max(a, b) == IF a > b THEN a ELSE b

RECURSIVE Pow2(_)
Pow2(n) == IF n = 0 THEN 1 ELSE 2 * Pow2(n - 1)

Ids == DOMAIN events

----------------------------------------------------------------------------
(* Rows and the data of each prisma call *)

\* createWebhookEvent, called by POST /test with eventType 'test': status
\* 'pending', nextRetry new Date(); attempts by default
\* (payload and webhookUrl are what the producer passed; createdAt is filled in
\* by the store and is kept as the name of the creation instant)
CreateData == [eventType |-> "test", status |-> "pending", attempts |-> DefaultAttempts, nextRetry |-> At(Now),
               deliveredAt |-> FALSE,
               payload |-> "testPayload", webhookUrl |-> "webhookUrl", createdAt |-> "creation"]

\* an asset row stamped with the creation time
TriggerDataStamped ==
    [eventType |-> "asset.uploaded", status |-> "pending", attempts |-> DefaultAttempts,
     nextRetry |-> At(Now), deliveredAt |-> FALSE,
     payload |-> "assetPayload", webhookUrl |-> "WEBHOOK_URL", createdAt |-> "creation"]

\* AssetService.triggerWebhook: status 'pending' only; nextRetry stays null
TriggerData == [eventType |-> "asset.uploaded", status |-> "pending", attempts |-> DefaultAttempts, nextRetry |-> Null,
                deliveredAt |-> FALSE,
                payload |-> "assetPayload", webhookUrl |-> "WEBHOOK_URL", createdAt |-> "creation"]

\* a success update that stores the response in place of the payload
SuccessDataOverPayload(row, webhookEvent) ==
    [row EXCEPT !.status = "delivered", !.attempts = webhookEvent.att + 1, !.deliveredAt = TRUE,
                !.payload = "response"]

\* sendWebhook, success branch: written over the row
SuccessData(row, webhookEvent) ==
    [row EXCEPT !.status = "delivered",
                !.attempts = webhookEvent.att + 1,
                !.deliveredAt = TRUE]

\* sendWebhook, catch branch
FailureData(row, webhookEvent) ==
    [row EXCEPT !.status = "failed",
                !.attempts = webhookEvent.att + 1]

\* processWebhook: the retry condition, on the object it was handed
ShouldRetry(webhookEvent) == webhookEvent.att < maxRetries

\* processWebhook: exponential backoff, on the object it was handed
Delay(webhookEvent) == baseDelay * Pow2(webhookEvent.att)

\* processWebhook: the update that re-queues the event
ResetData(row, nextRetry) ==
    [row EXCEPT !.status = "pending", !.nextRetry = At(nextRetry)]

\* a where clause that filters on the status alone (the nextRetry condition
\* left out): C10 must tell it from IsDue
IsDueIgnoringTime(row) == row.status = "pending"

\* processPendingWebhooks: the where clause of findMany
IsDue(row) ==
    /\ row.status = "pending"
    /\ \/ row.nextRetry = Null
       \/ \E t \in row.nextRetry : t <= Now

\* processPendingWebhooks: findMany ... take: 10, in no stated order:
\* every set of matching rows that is as large as the cap allows
FindDue(table) ==
    LET matching == {id \in DOMAIN table : IsDue(table[id])}
        n == Min(Take, Cardinality(matching))
    IN {S \in SUBSET matching : Cardinality(S) = n}

----------------------------------------------------------------------------
(* Procs *)

\* pc: "http" (axios.post in flight), "recOk" / "recFail" (outcome update issued),
\* "reset" (re-queueing update issued), "timer" (setTimeout pending).
\* ev, att: id and attempts of the webhookEvent object the call was handed.
\* left: ms until the timer fires ("timer"), the nextRetry computed ("reset").
\* delay: the backoff delay computed after a failure ("reset").
\* waited: the backoff delay this call waited for, 0 if it is no retry.
\* rest: the rows of a poll cycle's result still to be processed.
Proc(pc, ev, att, origin, left, waited, rest) ==
    [pc |-> pc, ev |-> ev, att |-> att, origin |-> origin, left |-> left,
     delay |-> 0, waited |-> waited, rest |-> rest]

ProcSet == BagToSet(procs)
One(p) == SetToBag({p})
NProcs == BagCardinality(procs)
ProcsOf(id, pcs) == BagCardinality([p \in {q \in ProcSet : q.ev = id /\ q.pc \in pcs} |-> procs[p]])

Bump(f, id) == [f EXCEPT ![id] = Min(@ + 1, MaxCount)]

\* history of an event, from the attempts recorded and the calls in progress
InFlight(id) == ProcsOf(id, {"http"})
Served(id) == done[id] + ProcsOf(id, {"recOk", "recFail"})
Sends(id) == Served(id) + InFlight(id)

\* the answer of the destination to the next request for event id
Outcomes(id) ==
    CASE dest = "down" -> {FALSE}
      [] dest = "recovering" -> IF Served(id) = 0 THEN {FALSE} ELSE {TRUE}
      [] dest = "up" -> {TRUE}
      [] OTHER -> {TRUE, FALSE}

\* createWebhookEvent while it awaits processWebhook: the caller has nothing yet
Awaiting == [result |-> "waiting", delivery |-> "none"]

\* a createWebhookEvent that rethrows when the delivery failed
CreateReturnsChecked(success) ==
    [result |-> IF success THEN "event" ELSE "error", delivery |-> IF success THEN "ok" ELSE "fail"]

\* createWebhookEvent after processWebhook returned success (true / false):
\* return webhookEvent, whatever success is
CreateReturns(success) ==
    [result |-> "event", delivery |-> IF success THEN "ok" ELSE "fail"]

\* AssetService.triggerWebhook returns once the row is inserted; nothing is sent
TriggerReturns == [result |-> "done", delivery |-> "none"]

\* processWebhook returns success: a poll cycle goes on with the next row of
\* its result, createWebhookEvent returns to its caller, a timer callback ends
Return(p, others, success) ==
    /\ IF p.origin = "poll" /\ p.rest # {}
       THEN \E s \in p.rest :
               procs' = others (+) One(Proc("http", s.ev, s.att, "poll", 0, 0, p.rest \ {s}))
       ELSE procs' = others
    /\ replies' = IF p.origin = "create"
                  THEN [replies EXCEPT ![p.ev] = CreateReturns(success)]
                  ELSE replies

----------------------------------------------------------------------------
(* Actions *)

Init ==
    /\ events = << >>
    /\ procs = EmptyBag
    /\ pollLeft = PollInterval
    /\ dest \in {"flaky", "down", "recovering"}
    /\ done = << >>
    /\ replies = << >>
    /\ restarts = 0
    /\ call = NoCall
    /\ result = NoResult
    /\ subscriptions = {}

NewId == Cardinality(Ids) + 1
Extend(f, id, v) == [x \in DOMAIN f \cup {id} |-> IF x = id THEN v ELSE f[x]]

\* createWebhookEvent: insert, then processWebhook(webhookEvent) at once
CreateWebhookEvent ==
    /\ Cardinality(Ids) < MaxEvents
    /\ NProcs < MaxProcs
    /\ events' = Extend(events, NewId, CreateData)
    /\ procs' = procs (+) One(Proc("http", NewId, CreateData.attempts, "create", 0, 0, {}))
    /\ done' = Extend(done, NewId, 0)
    /\ replies' = Extend(replies, NewId, Awaiting)
    /\ UNCHANGED <<pollLeft, dest, restarts, call, result, subscriptions>>

\* AssetService.triggerWebhook: insert only
TriggerWebhook ==
    /\ Cardinality(Ids) < MaxEvents
    /\ events' = Extend(events, NewId, TriggerData)
    /\ done' = Extend(done, NewId, 0)
    /\ replies' = Extend(replies, NewId, TriggerReturns)
    /\ UNCHANGED <<procs, pollLeft, dest, restarts, call, result, subscriptions>>

\* sendWebhook: axios.post resolves (2xx) or rejects; the outcome update is issued
Respond(p, ok) ==
    /\ p.pc = "http"
    /\ ok \in Outcomes(p.ev)
    /\ procs' = (procs (-) One(p)) (+) One([p EXCEPT !.pc = IF ok THEN "recOk" ELSE "recFail"])
    /\ UNCHANGED <<events, pollLeft, dest, done, replies, restarts, call, result, subscriptions>>

\* sendWebhook: the success update is written; processWebhook returns true
RecordSuccess(p) ==
    /\ p.pc = "recOk"
    /\ events' = [events EXCEPT ![p.ev] = SuccessData(@, p)]
    /\ done' = Bump(done, p.ev)
    /\ Return(p, procs (-) One(p), TRUE)
    /\ UNCHANGED <<pollLeft, dest, restarts, call, result, subscriptions>>

\* sendWebhook: the failure update is written; processWebhook then either
\* computes the backoff and issues the re-queueing update, or returns false
RecordFailure(p) ==
    /\ p.pc = "recFail"
    /\ events' = [events EXCEPT ![p.ev] = FailureData(@, p)]
    /\ done' = Bump(done, p.ev)
    /\ IF ShouldRetry(p)
       THEN /\ procs' = (procs (-) One(p)) (+) One([p EXCEPT !.pc = "reset", !.delay = Delay(p),
                                                             !.left = Now + Delay(p)])
            /\ UNCHANGED replies
       ELSE Return(p, procs (-) One(p), FALSE)
    /\ UNCHANGED <<pollLeft, dest, restarts, call, result, subscriptions>>

\* processWebhook: the re-queueing update is written, the retry timer is set,
\* and processWebhook returns false
Reset(p) ==
    /\ p.pc = "reset"
    /\ events' = [events EXCEPT ![p.ev] = ResetData(@, p.left)]
    /\ Return(p, (procs (-) One(p)) (+) One(Proc("timer", p.ev, p.att, "timer", p.delay, p.delay, {})),
              FALSE)
    /\ UNCHANGED <<pollLeft, dest, done, restarts, call, result, subscriptions>>

\* the setTimeout callback: processWebhook(webhookEvent) on the same object
TimerFire(p) ==
    /\ p.pc = "timer"
    /\ p.left <= 0
    /\ procs' = (procs (-) One(p)) (+) One([p EXCEPT !.pc = "http", !.left = 0])
    /\ UNCHANGED <<events, pollLeft, dest, done, replies, restarts, call, result, subscriptions>>

\* a cycle is followed while it stays within the bounds of the exploration
Explored(found) ==
    /\ NProcs < MaxProcs
    /\ \A id \in found : events[id].attempts < MaxAttempts

\* the setInterval callback: processPendingWebhooks
Poll ==
    /\ pollLeft <= 0
    /\ pollLeft' = PollInterval
    /\ \E found \in FindDue(events) :
          IF found = {} \/ ~Explored(found)
          THEN UNCHANGED procs
          ELSE \E id \in found :
                  LET snap(i) == [ev |-> i, att |-> events[i].attempts] IN
                  procs' = procs (+) One(Proc("http", id, events[id].attempts, "poll", 0, 0,
                                              {snap(i) : i \in found \ {id}}))
    /\ UNCHANGED <<events, dest, done, replies, restarts, call, result, subscriptions>>

\* one quantum passes; due timers and a due poll run first, and a database
\* update that was issued is written before the quantum is over
Elapse(t) == Max(t - Quantum, 0 - PastHorizon * Quantum)
Aged(p) == IF p.pc = "timer" THEN [p EXCEPT !.left = Elapse(@)] ELSE p

Tick ==
    /\ pollLeft > 0
    /\ \A p \in ProcSet : p.pc \in {"http", "timer"}
    /\ \A p \in ProcSet : p.pc = "timer" => p.left > 0
    /\ pollLeft' = pollLeft - Quantum
    /\ procs' = BagOfAll(Aged, procs)
    /\ events' = [id \in Ids |-> [events[id] EXCEPT !.nextRetry = {Elapse(t) : t \in @}]]
    /\ UNCHANGED <<dest, done, replies, restarts, call, result, subscriptions>>

Next ==
    \/ CreateWebhookEvent
    \/ TriggerWebhook
    \/ \E p \in ProcSet : \E ok \in BOOLEAN : Respond(p, ok)
    \/ \E p \in ProcSet : RecordSuccess(p)
    \/ \E p \in ProcSet : RecordFailure(p)
    \/ \E p \in ProcSet : Reset(p)
    \/ \E p \in ProcSet : TimerFire(p)
    \/ Poll
    \/ Tick

Spec == Init /\ [][Next]_vars

\* The event loop runs every callback that is ready, every request is answered
\* or times out, every database call returns, and time passes.
Fairness ==
    /\ WF_vars(\E p \in ProcSet : \E ok \in BOOLEAN : Respond(p, ok))
    /\ WF_vars(\E p \in ProcSet : RecordSuccess(p))
    /\ WF_vars(\E p \in ProcSet : RecordFailure(p))
    /\ WF_vars(\E p \in ProcSet : Reset(p))
    /\ WF_vars(\E p \in ProcSet : TimerFire(p))
    /\ WF_vars(Poll)
    /\ WF_vars(Tick)

FairSpec == Spec /\ Fairness

----------------------------------------------------------------------------
(* The due query on its own: a table of MaxRows rows left by earlier runs,  *)
(* rows 1..k of one kind and the others of another, and one poll cycle.     *)

----------------------------------------------------------------------------
(* Termination and restart of the process *)

\* the caller of a createWebhookEvent that was cut off never gets its result
Aborted == [result |-> "aborted", delivery |-> "none"]

\* The process is killed and started again: every call in progress and every
\* retry timer is gone (they live in memory only), the table is kept, and the
\* module-level setInterval starts a new 30 s period.
Crash ==
    /\ restarts < MaxRestarts
    /\ restarts' = restarts + 1
    /\ procs' = EmptyBag
    /\ pollLeft' = PollInterval
    /\ replies' = [id \in Ids |-> IF replies[id] = Awaiting THEN Aborted ELSE replies[id]]
    /\ UNCHANGED <<events, dest, done, call, result, subscriptions>>

NextCrash == Next \/ Crash

SpecCrash == Init /\ [][NextCrash]_vars


----------------------------------------------------------------------------
(* Errors of the event store: a prisma update that rejects *)

\* createWebhookEvent's catch block logs the error and throws it again
CreateThrows == [result |-> "error", delivery |-> "none"]

\* An error leaves processWebhook. In a poll cycle it is caught by the try
\* that encloses the whole loop of processPendingWebhooks: the cycle ends and
\* the rows not yet handled (p.rest) are dropped. From createWebhookEvent it
\* is thrown on to the caller. In a timer callback the promise is not awaited
\* and its rejection reaches nobody.
Raise(p, others) ==
    /\ procs' = others
    /\ replies' = IF p.origin = "create"
                  THEN [replies EXCEPT ![p.ev] = CreateThrows]
                  ELSE replies

\* the update after a 2xx answer rejects inside sendWebhook's try: control
\* goes to its catch block, which records the attempt as failed
ThrowInSuccess(p) ==
    /\ p.pc = "recOk"
    /\ procs' = (procs (-) One(p)) (+) One([p EXCEPT !.pc = "recFail"])
    /\ UNCHANGED <<events, pollLeft, dest, done, replies, restarts, call, result, subscriptions>>

\* the update inside sendWebhook's catch block rejects: nothing catches it
\* in sendWebhook or in processWebhook
ThrowInFailure(p) ==
    /\ p.pc = "recFail"
    /\ Raise(p, procs (-) One(p))
    /\ UNCHANGED <<events, pollLeft, dest, done, restarts, call, result, subscriptions>>

\* the re-queue update of processWebhook rejects: no timer is armed
ThrowInReset(p) ==
    /\ p.pc = "reset"
    /\ Raise(p, procs (-) One(p))
    /\ UNCHANGED <<events, pollLeft, dest, done, restarts, call, result, subscriptions>>

\* One cycle of processPendingWebhooks, from its query to the end of its
\* loop, with rows the asset producer inserted since the cycle before; the
\* interval has just elapsed. Retry timers armed during the cycle fire after
\* it (the shortest delay is baseDelay) and are left armed here.
InitCycle ==
    /\ events = [i \in 1..CycleRows |-> TriggerData]
    /\ procs = EmptyBag
    /\ pollLeft = 0
    /\ dest \in {"flaky", "down", "recovering"}
    /\ done = [i \in 1..CycleRows |-> 0]
    /\ replies = [i \in 1..CycleRows |-> TriggerReturns]
    /\ restarts = 0
    /\ call = NoCall
    /\ result = NoResult
    /\ subscriptions = {}

NextCycle ==
    \/ \E p \in ProcSet : \E ok \in BOOLEAN : Respond(p, ok)
    \/ \E p \in ProcSet : RecordSuccess(p)
    \/ \E p \in ProcSet : RecordFailure(p)
    \/ \E p \in ProcSet : Reset(p)
    \/ \E p \in ProcSet : ThrowInSuccess(p)
    \/ \E p \in ProcSet : ThrowInFailure(p)
    \/ \E p \in ProcSet : ThrowInReset(p)
    \/ Poll

SpecCycle == InitCycle /\ [][NextCycle]_vars


----------------------------------------------------------------------------
(* cleanupOldWebhooks *)

\* a variant of the filter that also takes the rows created at the cutoff
PurgedInclusive(row, cutoffDate) ==
    /\ row.createdAt <= cutoffDate
    /\ row.status \in {"delivered", "failed"}

\* the where clause of deleteMany: createdAt lt cutoffDate, status in [...]
Purged(row, cutoffDate) ==
    /\ row.createdAt < cutoffDate
    /\ row.status \in {"delivered", "failed"}

\* createdAt and the cutoff are offsets from now in seconds (thirty days in
\* milliseconds are beyond the integers of TLC)
DaySeconds == 86400
Second == 1

\* cutoffDate.setDate(cutoffDate.getDate() - daysOld)
CutoffDate(daysOld) == Now - daysOld * DaySeconds

DaysOld == {0, DefaultDaysOld}

\* creation times around the two cutoffs, and ten days beyond
CreatedAts ==
    {Now, Now - Second,
     CutoffDate(DefaultDaysOld) + Second, CutoffDate(DefaultDaysOld),
     CutoffDate(DefaultDaysOld) - Second, CutoffDate(DefaultDaysOld + 10)}

CleanupRows ==
    [eventType : {"test"}, status : {"pending", "delivered", "failed"},
     attempts : {DefaultAttempts}, nextRetry : {Null}, deliveredAt : {FALSE},
     createdAt : CreatedAts]

InitCleanup ==
    /\ \E n \in 0..MaxCleanupRows : events \in [1..n -> CleanupRows]
    /\ procs = EmptyBag
    /\ pollLeft = PollInterval
    /\ dest = "flaky"
    /\ done = [i \in DOMAIN events |-> 0]
    /\ replies = [i \in DOMAIN events |-> CreateReturns(FALSE)]
    /\ restarts = 0
    /\ call = NoCall
    /\ result = NoResult
    /\ subscriptions = {}

\* deleteMany succeeds: the matching rows are gone, result.count is returned
CleanupOldWebhooks(daysOld) ==
    LET cutoffDate == CutoffDate(daysOld)
        deleted == {id \in Ids : Purged(events[id], cutoffDate)}
        kept == Ids \ deleted
    IN  /\ events' = [id \in kept |-> events[id]]
        /\ done' = [id \in kept |-> done[id]]
        /\ replies' = [id \in kept |-> replies[id]]
        /\ call' = [op |-> "cleanupOldWebhooks", daysOld |-> daysOld, rejected |-> FALSE]
        /\ result' = Cardinality(deleted)
        /\ UNCHANGED <<procs, pollLeft, dest, restarts, subscriptions>>

\* deleteMany rejects: the catch block logs the error and returns 0
CleanupRejected(daysOld) ==
    /\ call' = [op |-> "cleanupOldWebhooks", daysOld |-> daysOld, rejected |-> TRUE]
    /\ result' = 0
    /\ UNCHANGED <<events, procs, pollLeft, dest, done, replies, restarts, subscriptions>>

NextCleanup ==
    \/ \E daysOld \in DaysOld : CleanupOldWebhooks(daysOld)
    \/ \E daysOld \in DaysOld : CleanupRejected(daysOld)

SpecCleanup == InitCleanup /\ [][NextCleanup]_vars


----------------------------------------------------------------------------
(* Signatures: generateSignature, verifySignature and POST /receive *)

\* characters of a signature header: the hex digits 0 and a (in both cases)
\* and a character that is no hex digit
HexDigits == {"0", "a", "A"}
Chars == HexDigits \cup {"z"}

MaxSigLen == 2 * MacBytes + 2

\* every string of at most MaxSigLen characters
Signatures == UNION {[1..n -> Chars] : n \in 0..MaxSigLen}

\* the header is not there: req.headers[...] is undefined
Undefined == <<"undefined">>

Nibble(c) == IF c = "0" THEN 0 ELSE 10

\* Buffer.from(string, 'hex'): two hex digits give a byte; decoding stops at
\* the first pair that is not two hex digits, a single last digit is dropped
RECURSIVE HexDecode(_)
HexDecode(string) ==
    IF Len(string) < 2 \/ string[1] \notin HexDigits \/ string[2] \notin HexDigits
    THEN << >>
    ELSE <<16 * Nibble(string[1]) + Nibble(string[2])>> \o HexDecode(SubSeq(string, 3, Len(string)))

\* digest('hex'): two lower-case digits per byte
RECURSIVE HexEncode(_)
HexEncode(bytes) ==
    IF bytes = << >>
    THEN << >>
    ELSE LET digit(n) == IF n = 0 THEN "0" ELSE "a"
         IN  <<digit(bytes[1] \div 16), digit(bytes[1] % 16)>> \o HexEncode(Tail(bytes))

\* request bodies as sent: two compact JSON texts and a spaced one
RawBodies == {"{\"a\":1}", "{\"a\":2}", "{ \"a\": 1 }"}

\* express.json(): req.body is the parsed object
JsonParse(raw) == IF raw = "{\"a\":2}" THEN [a |-> 2] ELSE [a |-> 1]

\* JSON.stringify(object): the compact text
JsonStringify(object) == IF object.a = 2 THEN "{\"a\":2}" ELSE "{\"a\":1}"

\* values of WEBHOOK_SECRET in the environment ("" is unset or empty)
EnvSecrets == {"", "s1", "s2", "default-secret"}

\* constructor: this.secret = process.env.WEBHOOK_SECRET || 'default-secret'
Secret(env) == IF env = "" THEN "default-secret" ELSE env

\* the service of this process runs with WEBHOOK_SECRET unset
ThisSecret == Secret("")

\* createHmac('sha256', secret).update(payload).digest(): MacBytes bytes,
\* different for different pairs of secret and text (first byte by the text,
\* second by the secret)
HmacSha256(secret, payload) ==
    [i \in 1..MacBytes |->
        IF i = 1
        THEN CASE payload = "{\"a\":1}" -> 10
               [] payload = "{\"a\":2}" -> 160
               [] OTHER -> 0
        ELSE IF i = 2
        THEN CASE secret = "default-secret" -> 170
               [] secret = "s1" -> 10
               [] secret = "s2" -> 160
               [] OTHER -> 0
        ELSE 170]

Hmac(payload) == HmacSha256(ThisSecret, payload)

\* generateSignature of a service constructed with this secret
generateSignatureWith(secret, payload) == HexEncode(HmacSha256(secret, payload))

generateSignature(payload) == HexEncode(Hmac(payload))

\* a comparison that never finds two buffers equal
TimingSafeEqualNever(a, b) ==
    IF Len(a) # Len(b) THEN "RangeError" ELSE "false"

\* crypto.timingSafeEqual(a, b): throws a RangeError when the byte lengths
\* differ, else tells whether the bytes are equal
TimingSafeEqual(a, b) ==
    IF Len(a) # Len(b) THEN "RangeError"
    ELSE IF a = b THEN "true" ELSE "false"

\* a verifier that recomputes the MAC under the default secret, whatever
\* secret it was constructed with
verifySignatureAnyKey(secret, payload, signature) ==
    LET expectedSignature == generateSignatureWith("default-secret", payload)
    IN  TimingSafeEqual(HexDecode(signature), HexDecode(expectedSignature))

\* verifySignature of a service constructed with this secret
verifySignatureWith(secret, payload, signature) ==
    LET expectedSignature == generateSignatureWith(secret, payload)
    IN  TimingSafeEqual(HexDecode(signature), HexDecode(expectedSignature))

verifySignature(payload, signature) ==
    LET expectedSignature == generateSignature(payload)
    IN  TimingSafeEqual(HexDecode(signature), HexDecode(expectedSignature))

\* a header value JavaScript takes as true: present and not empty
Truthy(signature) == signature # Undefined /\ signature # << >>

\* POST /receive: the status it answers
Receive(raw, signature) ==
    IF Truthy(signature)
    THEN LET payload == JsonStringify(JsonParse(raw))
             isValid == verifySignature(payload, signature)
         IN  CASE isValid = "RangeError" -> "500"
               [] isValid = "false" -> "401"
               [] OTHER -> "200"
    ELSE "200"

InitSig == Init /\ dest = "flaky"

\* verifySignature and the route keep no state: one call is looked at
CallVerifySignature(payload, signature) ==
    /\ call = NoCall
    /\ call' = [op |-> "verifySignature", body |-> payload, signature |-> signature]
    /\ result' = verifySignature(payload, signature)
    /\ UNCHANGED <<events, procs, pollLeft, dest, done, replies, restarts, subscriptions>>

PostReceive(raw, signature) ==
    /\ call = NoCall
    /\ call' = [op |-> "receive", body |-> raw, signature |-> signature]
    /\ result' = Receive(raw, signature)
    /\ UNCHANGED <<events, procs, pollLeft, dest, done, replies, restarts, subscriptions>>

\* one service signs a payload, a second one verifies payload and signature
SignAndVerify(envSigner, envVerifier, payload) ==
    LET signature == generateSignatureWith(Secret(envSigner), payload)
    IN  /\ call' = [op |-> "signAndVerify", body |-> payload, signature |-> signature,
                    signer |-> Secret(envSigner), verifier |-> Secret(envVerifier)]
        /\ result' = verifySignatureWith(Secret(envVerifier), payload, signature)
        /\ UNCHANGED <<events, procs, pollLeft, dest, done, replies, restarts, subscriptions>>

NextSig ==
    \/ /\ call = NoCall
       /\ \E envSigner \in EnvSecrets, envVerifier \in EnvSecrets, payload \in RawBodies :
             SignAndVerify(envSigner, envVerifier, payload)
    \/ /\ call = NoCall
       /\ \E payload \in RawBodies, signature \in Signatures :
             CallVerifySignature(payload, signature)
    \/ /\ call = NoCall
       /\ \E raw \in RawBodies, signature \in Signatures \cup {Undefined} :
             PostReceive(raw, signature)

SpecSig == InitSig /\ [][NextSig]_vars


----------------------------------------------------------------------------
(* Subscriptions (POST /subscribe) and the signing of an outgoing request *)

\* bearer tokens: none, one whose roles are neither user nor admin, two users
Tokens == {"none", "guest", "u1", "u2"}

\* webhookUrl values: two that isURL accepts and one that it does not
ValidUrls == {"https://a.example/hook", "https://b.example/hook"}
Urls == ValidUrls \cup {"not a url"}

SupportedEvents ==
    {"asset.uploaded", "asset.deleted", "asset.shared", "asset.updated", "user.created", "user.deleted"}

\* events values of a request
EventLists ==
    {<< >>, <<"asset.uploaded">>, <<"asset.archived">>, <<"asset.uploaded", "asset.archived">>}

\* secretKey of a request ("" is absent or empty)
SecretKeys == {"", "k1"}

\* secret_key: secretKey || null
NoSecretKey == "null"

Requests == [token : Tokens, webhookUrl : Urls, events : EventLists, secretKey : SecretKeys]

\* authenticateToken and requireUserOrAdmin
AuthStatus(token) ==
    IF token = "none" THEN "401"
    ELSE IF token = "guest" THEN "403"
    ELSE "next"

\* validators that look at the URL only
ValidationErrorsUrlOnly(req) ==
    IF req.webhookUrl \in ValidUrls THEN {} ELSE {"Valid webhook URL is required"}

\* the validation chain of POST /subscribe
ValidationErrors(req) ==
    (IF req.webhookUrl \in ValidUrls THEN {} ELSE {"Valid webhook URL is required"})
    \cup (IF Len(req.events) >= 1 THEN {} ELSE {"At least one event type is required"})
    \cup (IF \A i \in 1..Len(req.events) : req.events[i] \in SupportedEvents
          THEN {} ELSE {"Invalid event type"})

\* validateRequest: a request with validation errors is answered 400 and the
\* handler is not run
ValidateRequest(errors) == IF errors = {} THEN "next" ELSE "400"

\* the row POST /subscribe inserts
NewSubscription(req) ==
    [user_id |-> req.token, webhook_url |-> req.webhookUrl, events |-> req.events,
     secret_key |-> IF req.secretKey = "" THEN NoSecretKey ELSE req.secretKey,
     is_active |-> TRUE]

ExistingSubscription(req) ==
    \E sub \in subscriptions : sub.user_id = req.token /\ sub.webhook_url = req.webhookUrl

\* the status the request is answered with
SubscribeStatus(req, insertError) ==
    IF AuthStatus(req.token) # "next" THEN AuthStatus(req.token)
    ELSE IF ValidateRequest(ValidationErrors(req)) # "next" THEN "400"
    ELSE IF ExistingSubscription(req) THEN "400"
    ELSE IF insertError THEN "400"
    ELSE "201"

Subscribe(req, insertError) ==
    LET status == SubscribeStatus(req, insertError)
    IN  /\ status = "201" => Cardinality(subscriptions) < MaxSubscriptions
        /\ call' = [op |-> "subscribe", req |-> req]
        /\ result' = status
        /\ subscriptions' = IF status = "201"
                            THEN subscriptions \cup {NewSubscription(req)}
                            ELSE subscriptions
        /\ UNCHANGED <<events, procs, pollLeft, dest, done, replies, restarts>>

\* payload objects of events
Payloads == {[a |-> 1], [a |-> 2]}

\* an HTTP client that writes the body with spaces
AxiosTransformSpaced(data) ==
    IF data.kind = "object"
    THEN (IF data.value.a = 2 THEN "{ \"a\": 2 }" ELSE "{ \"a\": 1 }")
    ELSE data.value

\* axios.post(url, data): an object is written to the wire as JSON text, a
\* text as it is
AxiosTransform(data) ==
    IF data.kind = "object" THEN JsonStringify(data.value) ELSE data.value

\* sendWebhook up to the request: the text that is signed, the signature
\* header, the data handed to axios.post and the body on the wire
SignAndSend(webhookUrl, object) ==
    LET payload == JsonStringify(object)
        signature == generateSignature(payload)
        data == [kind |-> "object", value |-> object]
    IN  /\ call' = [op |-> "sendWebhook", webhookUrl |-> webhookUrl, payload |-> object]
        /\ result' = [signed |-> payload, signature |-> signature, data |-> data,
                      wire |-> AxiosTransform(data)]
        /\ UNCHANGED <<events, procs, pollLeft, dest, done, replies, restarts, subscriptions>>

NextSubscribe ==
    \/ \E req \in Requests, insertError \in BOOLEAN : Subscribe(req, insertError)
    \/ \E webhookUrl \in ValidUrls, object \in Payloads : SignAndSend(webhookUrl, object)

\* no subscription yet, no call made
InitSubscribe == Init /\ dest = "flaky"

SpecSubscribe == InitSubscribe /\ [][NextSubscribe]_vars


----------------------------------------------------------------------------
(* More due rows than one cycle takes.  The table holds Take + 1 pending    *)
(* rows written by triggerWebhook; the destination answers every request.   *)
(* A delivered row plays no further part in any query of the poll, so the   *)
(* rows the asset service inserts next take the places of the delivered     *)
(* ones in the bounded table.                                               *)

DueRows == Take + 1

InitBacklog ==
    /\ events = [i \in 1..DueRows |-> TriggerData]
    /\ procs = EmptyBag
    /\ pollLeft = 0
    /\ dest = "up"
    /\ done = [i \in 1..DueRows |-> 0]
    /\ replies = [i \in 1..DueRows |-> TriggerReturns]
    /\ restarts = 0
    /\ call = NoCall
    /\ result = NoResult
    /\ subscriptions = {}

\* the asset service goes on producing events: one triggerWebhook for every
\* row delivered so far, between two cycles of the poll
TriggerWebhooks ==
    /\ procs = EmptyBag
    /\ \E id \in Ids : events[id].status = "delivered"
    /\ events' = [id \in Ids |-> IF events[id].status = "delivered" THEN TriggerData ELSE events[id]]
    /\ done' = [id \in Ids |-> IF events[id].status = "delivered" THEN 0 ELSE done[id]]
    /\ UNCHANGED <<procs, pollLeft, dest, replies, restarts, call, result, subscriptions>>

\* findMany returns the rows it took in some order and the loop of the cycle
\* awaits them in that order, one after the other: here, the order of the ids
InOrder == \A q \in ProcSet : \A s \in q.rest : q.ev < s.ev

PollInOrder == Poll /\ InOrder'

RecordSuccessInOrder(p) == RecordSuccess(p) /\ InOrder'

\* time passes between two cycles; the requests of a cycle are answered at once
NextBacklog ==
    \/ PollInOrder
    \/ \E p \in ProcSet : \E ok \in BOOLEAN : Respond(p, ok)
    \/ \E p \in ProcSet : RecordSuccessInOrder(p)
    \/ procs = EmptyBag /\ Tick
    \/ TriggerWebhooks

\* every cycle of the interval runs, every request is answered, every
\* database call returns, time passes, and the producer keeps producing
FairnessBacklog ==
    /\ WF_vars(PollInOrder)
    /\ WF_vars(\E p \in ProcSet : \E ok \in BOOLEAN : Respond(p, ok))
    /\ WF_vars(\E p \in ProcSet : RecordSuccessInOrder(p))
    /\ WF_vars(procs = EmptyBag /\ Tick)
    /\ WF_vars(TriggerWebhooks)

SpecBacklog == InitBacklog /\ [][NextBacklog]_vars /\ FairnessBacklog

----------------------------------------------------------------------------
(* The subscription routes as the server runs them: a handler awaits its    *)
(* first query, other requests are served meanwhile, then it writes.  The   *)
(* rows carry the id the table gives them; procs holds the handlers that    *)
(* have passed their check and not yet written.                             *)

\* ids of the table: an id is never in use twice, nor given again while a
\* handler still refers to it
SubscriptionIds == 1..(MaxSubscriptions + 1)

Undefined3 == "undefined"

\* the callers of the registry: two users and one without a token
RegistryTokens == {"none", "u1", "u2"}

\* bodies of PUT /subscriptions/:id
UpdateUrls == Urls \cup {Undefined3}
UpdateActives == {Undefined3}
UpdateSecretKeys == {Undefined3}
UpdateRequests ==
    [token : RegistryTokens, id : SubscriptionIds, webhookUrl : UpdateUrls,
     isActive : UpdateActives, secretKey : UpdateSecretKeys]
DeleteRequests == [token : RegistryTokens, id : SubscriptionIds]

Handlers == BagToSet(procs)
NHandlers == BagCardinality(procs)

FreeIds ==
    SubscriptionIds \ ({sub.id : sub \in subscriptions} \cup {h.id : h \in Handlers})

\* the id the table gives the next row
NextId == CHOOSE id \in FreeIds : \A other \in FreeIds : id <= other

\* .single(): the row when the query matches exactly one, else no data
Single(rows) == IF Cardinality(rows) = 1 THEN rows ELSE {}

\* the row of the table for an inserted subscription
Stored(id, sub) ==
    [id |-> id, user_id |-> sub.user_id, webhook_url |-> sub.webhook_url,
     events |-> sub.events, secret_key |-> sub.secret_key, is_active |-> sub.is_active]

\* a check that finds the row whoever owns it
OwnedByAnyone(token, id) ==
    \E sub \in Single({r \in subscriptions : r.id = id}) : TRUE

\* the ownership check of PUT and DELETE
Owned(token, id) ==
    \E sub \in Single({r \in subscriptions : r.id = id}) : sub.user_id = token

\* the answer to a request
Answer(op, stage, status) ==
    /\ call' = [op |-> op, stage |-> stage]
    /\ result' = status

\* the answer 404 to the request of token for the subscription id
NotFound(op, token, id) ==
    /\ call' = [op |-> op, stage |-> "check", token |-> token, id |-> id]
    /\ result' = "404"

\* a handler that has passed its check
Handler(op, token, id, body) == [op |-> op, token |-> token, id |-> id, body |-> body]

\* POST /subscribe up to the answer of the existence query
SubscribeCheck(req) ==
    LET existingSubscription ==
            Single({r \in subscriptions :
                       r.user_id = req.token /\ r.webhook_url = req.webhookUrl})
    IN  IF AuthStatus(req.token) # "next"
        THEN /\ Answer("subscribe", "check", AuthStatus(req.token))
             /\ UNCHANGED <<procs, subscriptions>>
        ELSE IF ValidateRequest(ValidationErrors(req)) # "next" \/ existingSubscription # {}
        THEN /\ Answer("subscribe", "check", "400")
             /\ UNCHANGED <<procs, subscriptions>>
        ELSE /\ NHandlers < MaxProcs
             /\ FreeIds # {}
             /\ procs' = procs (+) SetToBag({Handler("subscribe", req.token, NextId,
                                                   Stored(NextId, NewSubscription(req)))})
             /\ UNCHANGED <<call, result, subscriptions>>

\* POST /subscribe: the insert and the answer
SubscribeInsert(h, insertError) ==
    /\ h \in Handlers /\ h.op = "subscribe"
    /\ procs' = procs (-) SetToBag({h})
    /\ IF insertError
       THEN /\ Answer("subscribe", "write", "400")
            /\ UNCHANGED subscriptions
       ELSE /\ Cardinality(subscriptions) < MaxSubscriptions
            /\ subscriptions' = subscriptions \cup {h.body}
            /\ Answer("subscribe", "write", "201")

\* the validation chain of PUT /subscriptions/:id for the bodies above
UpdateValidationErrors(req) ==
    IF req.webhookUrl \in ValidUrls \cup {Undefined3} THEN {}
    ELSE {"Invalid value"}

\* PUT /subscriptions/:id up to the answer of the ownership query
UpdateCheck(req) ==
    IF AuthStatus(req.token) # "next"
    THEN /\ Answer("updateSubscription", "check", AuthStatus(req.token))
         /\ UNCHANGED <<procs, subscriptions>>
    ELSE IF ValidateRequest(UpdateValidationErrors(req)) # "next"
    THEN /\ Answer("updateSubscription", "check", "400")
         /\ UNCHANGED <<procs, subscriptions>>
    ELSE IF ~Owned(req.token, req.id)
    THEN /\ NotFound("updateSubscription", req.token, req.id)
         /\ UNCHANGED <<procs, subscriptions>>
    ELSE /\ NHandlers < MaxProcs
         /\ procs' = procs (+) SetToBag({Handler("updateSubscription", req.token, req.id,
                          [webhookUrl |-> req.webhookUrl, isActive |-> req.isActive,
                           secretKey |-> req.secretKey])})
         /\ UNCHANGED <<call, result, subscriptions>>

\* updateData applied to a row
Updated(sub, body) ==
    [sub EXCEPT
        !.webhook_url = IF body.webhookUrl # Undefined3 THEN body.webhookUrl ELSE @,
        !.is_active = IF body.isActive # Undefined3 THEN FALSE ELSE @,
        !.secret_key = IF body.secretKey # Undefined3 THEN body.secretKey ELSE @]

\* PUT /subscriptions/:id: the update by id and the answer; an update that
\* matches no row gives .single() an error
UpdateWrite(h, updateError) ==
    /\ h \in Handlers /\ h.op = "updateSubscription"
    /\ procs' = procs (-) SetToBag({h})
    /\ LET rows == {r \in subscriptions : r.id = h.id}
       IN  IF updateError \/ rows = {}
           THEN /\ Answer("updateSubscription", "write", "400")
                /\ UNCHANGED subscriptions
           ELSE /\ subscriptions' =
                       (subscriptions \ rows) \cup {Updated(r, h.body) : r \in rows}
                /\ Answer("updateSubscription", "write", "200")

\* DELETE /subscriptions/:id up to the answer of the ownership query
DeleteCheck(req) ==
    IF AuthStatus(req.token) # "next"
    THEN /\ Answer("deleteSubscription", "check", AuthStatus(req.token))
         /\ UNCHANGED <<procs, subscriptions>>
    ELSE IF ~Owned(req.token, req.id)
    THEN /\ NotFound("deleteSubscription", req.token, req.id)
         /\ UNCHANGED <<procs, subscriptions>>
    ELSE /\ NHandlers < MaxProcs
         /\ procs' = procs (+) SetToBag({Handler("deleteSubscription", req.token, req.id,
                          [webhookUrl |-> Undefined3, isActive |-> Undefined3,
                           secretKey |-> Undefined3])})
         /\ UNCHANGED <<call, result, subscriptions>>

\* DELETE /subscriptions/:id: the delete by id and the answer
DeleteWrite(h, deleteError) ==
    /\ h \in Handlers /\ h.op = "deleteSubscription"
    /\ procs' = procs (-) SetToBag({h})
    /\ IF deleteError
       THEN /\ Answer("deleteSubscription", "write", "400")
            /\ UNCHANGED subscriptions
       ELSE /\ subscriptions' = {r \in subscriptions : r.id # h.id}
            /\ Answer("deleteSubscription", "write", "200")

\* subscribe requests of the registry: those of POST /subscribe for one
\* event type and no secret
RegistryRequests ==
    {req \in Requests : /\ req.token \in RegistryTokens
                        /\ req.events = <<"asset.uploaded">>
                        /\ req.secretKey = ""}

NextRegistry ==
    \/ /\ \E req \in RegistryRequests : SubscribeCheck(req)
       /\ UNCHANGED <<events, pollLeft, dest, done, replies, restarts>>
    \/ /\ \E h \in Handlers, insertError \in BOOLEAN : SubscribeInsert(h, insertError)
       /\ UNCHANGED <<events, pollLeft, dest, done, replies, restarts>>
    \/ /\ \E req \in UpdateRequests : UpdateCheck(req)
       /\ UNCHANGED <<events, pollLeft, dest, done, replies, restarts>>
    \/ /\ \E h \in Handlers, updateError \in BOOLEAN : UpdateWrite(h, updateError)
       /\ UNCHANGED <<events, pollLeft, dest, done, replies, restarts>>
    \/ /\ \E req \in DeleteRequests : DeleteCheck(req)
       /\ UNCHANGED <<events, pollLeft, dest, done, replies, restarts>>
    \/ /\ \E h \in Handlers, deleteError \in BOOLEAN : DeleteWrite(h, deleteError)
       /\ UNCHANGED <<events, pollLeft, dest, done, replies, restarts>>

\* no subscription, no request in progress
InitRegistry == Init /\ dest = "flaky"

SpecRegistry == InitRegistry /\ [][NextRegistry]_vars

\* the same routes when the server has one request at a time: a request
\* arrives when the handler before it has answered
NextOwner ==
    \/ /\ procs = EmptyBag
       /\ \E req \in RegistryRequests : SubscribeCheck(req)
       /\ UNCHANGED <<events, pollLeft, dest, done, replies, restarts>>
    \/ /\ \E h \in Handlers, insertError \in BOOLEAN : SubscribeInsert(h, insertError)
       /\ UNCHANGED <<events, pollLeft, dest, done, replies, restarts>>
    \/ /\ procs = EmptyBag
       /\ \E req \in UpdateRequests : UpdateCheck(req)
       /\ UNCHANGED <<events, pollLeft, dest, done, replies, restarts>>
    \/ /\ \E h \in Handlers, updateError \in BOOLEAN : UpdateWrite(h, updateError)
       /\ UNCHANGED <<events, pollLeft, dest, done, replies, restarts>>
    \/ /\ procs = EmptyBag
       /\ \E req \in DeleteRequests : DeleteCheck(req)
       /\ UNCHANGED <<events, pollLeft, dest, done, replies, restarts>>
    \/ /\ \E h \in Handlers, deleteError \in BOOLEAN : DeleteWrite(h, deleteError)
       /\ UNCHANGED <<events, pollLeft, dest, done, replies, restarts>>

SpecOwner == InitRegistry /\ [][NextOwner]_vars

----------------------------------------------------------------------------
(* getWebhookStats: three queries, one after the other, while the rest of   *)
(* the server inserts, updates and deletes rows                             *)

MaxStatsRows == 3

Statuses == {"pending", "delivered", "failed"}

\* creation times: now, more than a day ago, more than DefaultDaysOld days ago
StatsCreatedAts == {Now, CutoffDate(1) - Second, CutoffDate(DefaultDaysOld + 10)}

StatsRows == {row \in CleanupRows : row.createdAt \in StatsCreatedAts}

InitStats ==
    /\ \E n \in 0..MaxStatsRows : events \in [1..n -> StatsRows]
    /\ procs = EmptyBag
    /\ pollLeft = PollInterval
    /\ dest = "flaky"
    /\ done = [i \in DOMAIN events |-> 0]
    /\ replies = [i \in DOMAIN events |-> TriggerReturns]
    /\ restarts = 0
    /\ call = NoCall
    /\ result = NoResult
    /\ subscriptions = {}

\* the position of a getWebhookStats call and the values it holds so far
StatsCall(pc, totalEvents, recentEvents) ==
    [op |-> "getWebhookStats", pc |-> pc, totalEvents |-> totalEvents,
     recentEvents |-> recentEvents]

StatsAt(pcs) == call.op = "getWebhookStats" /\ call.pc \in pcs

\* getWebhookStats is called: the first query is sent
GetWebhookStats ==
    /\ ~StatsAt({"total", "recent", "group"})
    /\ call' = StatsCall("total", 0, 0)
    /\ result' = NoResult
    /\ UNCHANGED <<events, procs, pollLeft, dest, done, replies, restarts, subscriptions>>

\* prisma.webhookEvent.count()
StatsCountTotal ==
    /\ StatsAt({"total"})
    /\ call' = StatsCall("recent", Cardinality(Ids), 0)
    /\ UNCHANGED <<events, procs, pollLeft, dest, done, replies, restarts, result, subscriptions>>

\* createdAt gte now - 24 h
Recent(row) == row.createdAt >= Now - DaySeconds

\* prisma.webhookEvent.count({where: {createdAt: {gte: ...}}})
StatsCountRecent ==
    /\ StatsAt({"recent"})
    /\ call' = StatsCall("group", call.totalEvents,
                         Cardinality({id \in Ids : Recent(events[id])}))
    /\ UNCHANGED <<events, procs, pollLeft, dest, done, replies, restarts, result, subscriptions>>

\* groupBy status with _count, reduced to an object: the statuses that have
\* rows, each with the number of its rows
StatusBreakdown ==
    [status \in {events[id].status : id \in Ids} |->
        Cardinality({id \in Ids : events[id].status = status})]

\* prisma.webhookEvent.groupBy and the return
StatsGroupBy ==
    /\ StatsAt({"group"})
    /\ call' = StatsCall("returned", call.totalEvents, call.recentEvents)
    /\ result' = [totalEvents |-> call.totalEvents, recentEvents |-> call.recentEvents,
                  statusBreakdown |-> StatusBreakdown]
    /\ UNCHANGED <<events, procs, pollLeft, dest, done, replies, restarts, subscriptions>>

\* one of the queries rejects: the catch block logs the error and returns null
StatsRejected ==
    /\ StatsAt({"total", "recent", "group"})
    /\ call' = StatsCall("rejected", 0, 0)
    /\ result' = "null"
    /\ UNCHANGED <<events, procs, pollLeft, dest, done, replies, restarts, subscriptions>>

\* the row triggerWebhook inserts now
StatsRow ==
    [eventType |-> "test", status |-> "pending", attempts |-> DefaultAttempts,
     nextRetry |-> Null, deliveredAt |-> FALSE, createdAt |-> Now]

\* AssetService.triggerWebhook while the statistics are computed
StatsInsert ==
    /\ Cardinality(Ids) < MaxStatsRows
    /\ LET id == CHOOSE i \in 1..MaxStatsRows :
                    i \notin Ids /\ \A j \in 1..MaxStatsRows : j \notin Ids => i <= j
       IN  /\ events' = [i \in Ids \cup {id} |-> IF i = id THEN StatsRow ELSE events[i]]
           /\ done' = [i \in Ids \cup {id} |-> IF i = id THEN 0 ELSE done[i]]
           /\ replies' = [i \in Ids \cup {id} |-> IF i = id THEN TriggerReturns ELSE replies[i]]
    /\ UNCHANGED <<procs, pollLeft, dest, restarts, call, result, subscriptions>>

\* the status updates of sendWebhook (pending to delivered or failed) and of
\* processWebhook (failed to pending)
StatusUpdates(status) ==
    IF status = "pending" THEN {"delivered", "failed"}
    ELSE IF status = "failed" THEN {"pending"}
    ELSE {}

StatsUpdate(id, status) ==
    /\ status \in StatusUpdates(events[id].status)
    /\ events' = [events EXCEPT ![id].status = status]
    /\ UNCHANGED <<procs, pollLeft, dest, done, replies, restarts, call, result, subscriptions>>

\* the deleteMany of cleanupOldWebhooks while the statistics are computed
StatsPurge ==
    LET kept == {id \in Ids : ~Purged(events[id], CutoffDate(DefaultDaysOld))}
    IN  /\ kept # Ids
        /\ events' = [id \in kept |-> events[id]]
        /\ done' = [id \in kept |-> done[id]]
        /\ replies' = [id \in kept |-> replies[id]]
        /\ UNCHANGED <<procs, pollLeft, dest, restarts, call, result, subscriptions>>

NextStats ==
    \/ GetWebhookStats
    \/ StatsCountTotal
    \/ StatsCountRecent
    \/ StatsGroupBy
    \/ StatsRejected
    \/ StatsInsert
    \/ \E id \in Ids, status \in Statuses : StatsUpdate(id, status)
    \/ StatsPurge

SpecStats == InitStats /\ [][NextStats]_vars

----------------------------------------------------------------------------
(* cleanupOldWebhooks while events are being processed *)

\* an asset event inserted forty days ago that is still 'pending' (createdAt
\* as an offset in seconds, as in the cleanup part)
OldPendingRow == [TriggerData EXCEPT !.createdAt = CutoffDate(DefaultDaysOld + 10)]

InitPurge ==
    /\ events = [i \in 1..MaxEvents |-> OldPendingRow]
    /\ procs = EmptyBag
    /\ pollLeft = PollInterval
    /\ dest = "flaky"
    /\ done = [i \in 1..MaxEvents |-> 0]
    /\ replies = [i \in 1..MaxEvents |-> TriggerReturns]
    /\ restarts = 0
    /\ call = NoCall
    /\ result = NoResult
    /\ subscriptions = {}

\* The steps of Next on the rows that exist, the daily cleanup, and the
\* updates of a row the cleanup has deleted: prisma's update rejects when no
\* row has the id, which is handled as any rejected update.
NextPurge ==
    \/ \E p \in ProcSet : \E ok \in BOOLEAN : Respond(p, ok)
    \/ \E p \in ProcSet : p.ev \in Ids /\ RecordSuccess(p)
    \/ \E p \in ProcSet : p.ev \in Ids /\ RecordFailure(p)
    \/ \E p \in ProcSet : p.ev \in Ids /\ Reset(p)
    \/ \E p \in ProcSet : TimerFire(p)
    \/ \E p \in ProcSet : p.ev \notin Ids /\ ThrowInSuccess(p)
    \/ \E p \in ProcSet : p.ev \notin Ids /\ ThrowInFailure(p)
    \/ \E p \in ProcSet : p.ev \notin Ids /\ ThrowInReset(p)
    \/ Poll
    \/ Tick
    \/ CleanupOldWebhooks(DefaultDaysOld)

SpecPurge == InitPurge /\ [][NextPurge]_vars


RowKinds ==
    [eventType : {"test"}, status : {"pending", "delivered", "failed"},
     attempts : {DefaultAttempts}, nextRetry : {Null, At(Now - Quantum), At(Now), At(Now + Quantum)},
     deliveredAt : {FALSE}]

InitQuery ==
    /\ \E n \in 0..MaxRows, k \in 0..MaxRows, a \in RowKinds, b \in RowKinds :
          events = [i \in 1..n |-> IF i <= k THEN a ELSE b]
    /\ procs = EmptyBag
    /\ pollLeft = 0
    /\ dest = "flaky"
    /\ done = [i \in DOMAIN events |-> 0]
    /\ replies = [i \in DOMAIN events |-> CreateReturns(FALSE)]
    /\ restarts = 0
    /\ call = NoCall
    /\ result = NoResult
    /\ subscriptions = {}

NextQuery == Poll

SpecQuery == InitQuery /\ [][NextQuery]_vars

----------------------------------------------------------------------------
(* Claims *)

Pending(id) == events[id].status = "pending"
Delivered(id) == events[id].status = "delivered"
Failed(id) == events[id].status = "failed"
Quiet(id) == \A p \in ProcSet : p.ev # id /\ \A s \in p.rest : s.ev # id

\* C1: an event whose status is 'pending' has attempts <= maxRetries.
C1_PendingWithinCeiling ==
    \A id \in Ids : Pending(id) => events[id].attempts <= maxRetries

\* C2: once an event's status is 'delivered', no later step changes it.
C2_DeliveredIsTerminal ==
    [][\A id \in Ids : Delivered(id) => events'[id].status = "delivered"]_vars

\* C3: no transition leaves 'failed': a row written as 'failed' never becomes
\* 'pending' or 'delivered' again (so a failure with retries remaining is
\* never written as 'failed').
C3_FailedIsTerminal ==
    [][\A id \in Ids : Failed(id) => events'[id].status = "failed"]_vars

\* C4: at most maxRetries sendWebhook calls are ever made for an event.
C4_AtMostCeilingSends ==
    \A id \in Ids : Sends(id) <= maxRetries

\* C5: no two sendWebhook calls for the same event are in flight together.
C5_NoConcurrentDispatch ==
    \A id \in Ids : InFlight(id) <= 1

\* C6: the persisted attempts equals the number of delivery attempts completed
\* (stated while the model's counter of completed attempts is below its cap).
C6_AttemptsCountsCompleted ==
    \A id \in Ids : done[id] < MaxCount => events[id].attempts = done[id]

\* C7: if the destination fails every attempt, an event created by
\* createWebhookEvent eventually is 'failed' with attempts = maxRetries and
\* stays so.
C7_ExhaustionIsFinal ==
    (dest = "down") =>
        <>[](\A id \in Ids : events[id].eventType = "test" =>
                Failed(id) /\ events[id].attempts = maxRetries)

\* C8: if the destination fails the first attempt and answers 2xx from the
\* second on, the event ends (nothing in progress or scheduled for it, two or
\* more attempts recorded) 'delivered' with attempts = 2.
C8_SecondAttemptDelivers ==
    \A id \in Ids :
        (dest = "recovering" /\ Quiet(id) /\ done[id] >= 2)
            => (Delivered(id) /\ events[id].attempts = 2)

\* C9: the backoff delay computed after a failed retry is strictly greater
\* than the delay that retry itself waited for.
C9_BackoffGrows ==
    \A p \in ProcSet : (p.pc = "reset" /\ p.waited > 0) => p.delay > p.waited

\* the rows a poll cycle was given: the one in hand and those still to come
PolledRows(p) == {p.ev} \cup {s.ev : s \in p.rest}

\* C10: the rows a poll cycle got from the due query are at most Take, each
\* 'pending' (never 'delivered' or 'failed') with nextRetry null or not after
\* the time of the query.  (Under SpecQuery the table is as the query saw it.)
C10_DueQuery ==
    \A p \in ProcSet : p.origin = "poll" =>
        /\ Cardinality(PolledRows(p)) <= Take
        /\ \A id \in PolledRows(p) :
              /\ events[id].status = "pending"
              /\ \A t \in events[id].nextRetry : ~(t > Now)

\* C10 witness: a cycle took Take rows out of more that were due, and left
\* a pending row whose nextRetry is still to come.
C10_Witness ==
    \E p \in ProcSet :
        /\ p.origin = "poll"
        /\ Cardinality(PolledRows(p)) = Take
        /\ Cardinality({id \in Ids : IsDue(events[id])}) > Take
        /\ \E id \in Ids \ PolledRows(p) :
              Pending(id) /\ events[id].nextRetry = At(Now + Quantum)

\* C13: a delivery failure never makes a producer-facing operation fail:
\* createWebhookEvent hands the event back whether the attempt it awaited
\* succeeded or failed, and what triggerWebhook gave the asset operation is
\* never touched by a later delivery of its event
C13_ProducerNeverFails ==
    \A id \in Ids :
        /\ replies[id].delivery \in {"ok", "fail"} => replies[id].result = "event"
        /\ events[id].eventType # "test" => replies[id] = TriggerReturns

C13_Witness ==
    \E id \in Ids : /\ replies[id] = [result |-> "event", delivery |-> "fail"]
                     /\ events[id].attempts >= 1
                     /\ ~Delivered(id)

\* C14: createWebhookEvent is fire-and-forget: while the HTTP attempt it
\* started is in flight its caller already has the event back
C14_FireAndForget ==
    \A p \in ProcSet :
        (p.origin = "create" /\ p.pc = "http") => replies[p.ev].result = "event"

\* C15: every created event, from createWebhookEvent or from triggerWebhook,
\* has a delivery attempt started at once
C15_ImmediateAttempt == \A id \in Ids : Sends(id) >= 1

\* the rows an action inserts
Inserted(id) == id \in DOMAIN events' /\ id \notin DOMAIN events

C11_PendingAfterRestart ==
    \A id \in Ids :
        (restarts > 0 /\ procs = EmptyBag /\ ~Delivered(id) /\ events[id].attempts < maxRetries)
            => Pending(id)

\* C12: a failure while one row of a poll cycle is handled never ends the
\* cycle: every row the cycle selected and has not handled yet is still
\* held by the cycle after each step
C12_CycleNeverAborted ==
    [][\A p \in ProcSet :
          p.origin = "poll" =>
              \A s \in p.rest :
                  \E q \in BagToSet(procs') :
                      q.origin = "poll" /\ (q.ev = s.ev \/ s \in q.rest)]_vars

\* C17: a cleanupOldWebhooks(daysOld) whose delete the store carried out
\* removes exactly the 'delivered' and 'failed' rows created before now minus
\* daysOld days, returns how many it removed, and leaves every 'pending' row
\* and every row created at or after the cutoff as it was
C17_CleanupExact ==
    [][(call'.op = "cleanupOldWebhooks" /\ ~call'.rejected) =>
          LET cutoff == Now - call'.daysOld * 24 * 60 * 60
              old(id) == events[id].createdAt < cutoff
              terminal(id) == events[id].status \in {"delivered", "failed"}
          IN  /\ \A id \in Ids : (old(id) /\ terminal(id)) <=> id \notin DOMAIN events'
              /\ \A id \in Ids : (~old(id) \/ Pending(id)) =>
                     (id \in DOMAIN events' /\ events'[id] = events[id])
              /\ DOMAIN events' \subseteq Ids
              /\ result' = Cardinality(Ids) - Cardinality(DOMAIN events')]_vars

\* a cleanup with the default age has removed rows and has kept a 'pending'
\* row older than the cutoff and a finished row created exactly at the cutoff
C17_Witness ==
    /\ call = [op |-> "cleanupOldWebhooks", daysOld |-> DefaultDaysOld, rejected |-> FALSE]
    /\ result > 0
    /\ \E id \in Ids : Pending(id) /\ events[id].createdAt < Now - DefaultDaysOld * 24 * 60 * 60
    /\ \E id \in Ids : Delivered(id) /\ events[id].createdAt = Now - DefaultDaysOld * 24 * 60 * 60

\* C18: verifySignature never throws, and it returns false for a signature
\* whose decoded length is not the length of the MAC
C18_VerifyNeverThrows ==
    call.op = "verifySignature" =>
        /\ result \in {"true", "false"}
        /\ Len(HexDecode(call.signature)) # MacBytes => result = "false"

\* C19: a request to /receive that carries a signature header is answered 200
\* when the header is the HMAC of its body and 401 for every other value
C19_ReceiveStatus ==
    (call.op = "receive" /\ call.signature # Undefined) =>
        result = IF call.signature = HexEncode(Hmac(call.body)) THEN "200" ELSE "401"

\* C20: a request to /receive without a signature header is never answered 200
C20_UnsignedNeverAccepted ==
    (call.op = "receive" /\ call.signature = Undefined) => result # "200"

\* C27: when processWebhook decides on a retry and computes the backoff, the
\* attempts value it uses is the attempts count persisted for the event at
\* that moment
C27_NoRetryStateOutsideStore ==
    \A p \in ProcSet : p.pc = "reset" => p.att = events[p.ev].attempts

\* an HTTP POST for the event is issued in this step
Dispatched(id) ==
    /\ id \in DOMAIN events'
    /\ InFlight(id)' > (IF id \in Ids THEN InFlight(id) ELSE 0)

\* C28: no attempt for an event starts while the nextRetry persisted for it
\* is strictly in the future
C28_NotBeforeNextRetry ==
    [][\A id \in DOMAIN events' :
          Dispatched(id) => \A t \in events'[id].nextRetry : t <= Now]_vars

\* C29: no HTTP POST is issued for an event after a delivery of it has been
\* recorded
C29_NoSendAfterDelivered ==
    [][\A id \in Ids : events[id].deliveredAt => ~Dispatched(id)]_vars

\* C30: at most one retry timer is armed per event
C30_OneTimerPerEvent == \A id \in Ids : ProcsOf(id, {"timer"}) <= 1

\* C26: once an event is created, no step changes its eventType, payload,
\* webhookUrl or createdAt
C26_CreatedFieldsFrozen ==
    [][\A id \in Ids :
          id \in DOMAIN events' =>
              /\ events'[id].eventType = events[id].eventType
              /\ events'[id].payload = events[id].payload
              /\ events'[id].webhookUrl = events[id].webhookUrl
              /\ events'[id].createdAt = events[id].createdAt]_vars

\* an asset event went through a failure, a re-queue and a success, and still
\* carries what its producer stored
C26_Witness ==
    \E id \in Ids :
        /\ Delivered(id)
        /\ events[id].attempts >= 2
        /\ events[id].nextRetry # Null
        /\ events[id].nextRetry # At(Now)
        /\ events[id].payload = "assetPayload"
        /\ events[id].webhookUrl = "WEBHOOK_URL"

\* C21: a signature made by generateSignature over a payload under a secret
\* is verified as true against the same payload under the same secret
C21_SignThenVerify ==
    (call.op = "signAndVerify" /\ call.signer = call.verifier) => result = "true"

C21_Witness ==
    /\ call.op = "signAndVerify"
    /\ call.signer = "s1" /\ call.verifier = "s1"
    /\ call.signature = generateSignatureWith("s1", call.body)
    /\ result = "true"

\* C22: a signature made under one secret is verified as false by a verifier
\* that holds a different secret
C22_OtherSecretRejected ==
    (call.op = "signAndVerify" /\ call.signer # call.verifier) => result = "false"

C22_Witness ==
    /\ call.op = "signAndVerify"
    /\ call.signer = "default-secret" /\ call.verifier = "s1"
    /\ call.signature = generateSignatureWith("default-secret", call.body)
    /\ result = "false"

\* the secrets of the subscriptions for a destination
SubscriptionSecrets(webhookUrl) ==
    {sub.secret_key : sub \in {x \in subscriptions :
                                  x.webhook_url = webhookUrl /\ x.secret_key # "null"}}

\* C23: an outgoing event is signed with the secret of the subscription for
\* its destination when there is one, and with the default secret otherwise
C23_SubscriptionSecretSigns ==
    call.op = "sendWebhook" =>
        LET text == JsonStringify(call.payload)
            secrets == SubscriptionSecrets(call.webhookUrl)
        IN  IF secrets = {}
            THEN result.signature = HexEncode(HmacSha256("default-secret", text))
            ELSE \E secret \in secrets : result.signature = HexEncode(HmacSha256(secret, text))

InvalidSubscribe(req) ==
    \/ req.webhookUrl \notin {"https://a.example/hook", "https://b.example/hook"}
    \/ req.events = << >>
    \/ \E i \in DOMAIN req.events :
          req.events[i] \notin {"asset.uploaded", "asset.deleted", "asset.shared",
                                "asset.updated", "user.created", "user.deleted"}

\* C25: a subscribe request with an invalid URL, no events or an unsupported
\* event type is rejected and changes neither the subscriptions nor the events
C25_InvalidSubscribeNoEffect ==
    [][(call'.op = "subscribe" /\ InvalidSubscribe(call'.req)) =>
          /\ result' \in {"400", "401", "403"}
          /\ subscriptions' = subscriptions
          /\ events' = events]_vars

\* a user who has a subscription was answered 400 for a request for another
\* URL whose only fault is an unsupported event type
C25_Witness ==
    /\ call.op = "subscribe"
    /\ call.req.token = "u1"
    /\ call.req.webhookUrl = "https://b.example/hook"
    /\ call.req.events = <<"asset.uploaded", "asset.archived">>
    /\ result = "400"
    /\ \E sub \in subscriptions : sub.user_id = "u1"
    /\ \A sub \in subscriptions : sub.webhook_url # "https://b.example/hook"

\* C35: an event carries a deliveredAt timestamp exactly when its status is
\* 'delivered'
C35_DeliveredAtIffDelivered ==
    \A id \in Ids : events[id].deliveredAt <=> Delivered(id)

\* C31: cleanupOldWebhooks never deletes an event that is still being
\* processed: every attempt in flight, every outcome about to be written,
\* every armed retry timer and every row a poll cycle still holds is for an
\* event that exists
C31_NoPurgeWhileProcessed ==
    \A p \in ProcSet : p.ev \in Ids /\ \A s \in p.rest : s.ev \in Ids

\* C32: every pending row that is due is eventually dispatched by a cycle of
\* the poll, also when more than Take rows are due at once: no due row is
\* passed over forever.
C32_DueEventuallyDispatched ==
    \A id \in 1..DueRows :
        (id \in Ids /\ IsDue(events[id])) ~> (id \in Ids /\ InFlight(id) > 0)

\* C33: for every user and destination URL the table holds at most one
\* subscription, whatever subscribe and update requests were served and
\* however they overlapped.
C33_OnePerUserAndUrl ==
    \A s1 \in subscriptions : \A s2 \in subscriptions :
        (s1.user_id = s2.user_id /\ s1.webhook_url = s2.webhook_url) => s1 = s2

\* the requests for a subscription that the caller, who passes the
\* authentication and the validation, does not own or that does not exist
NotOwner(req) ==
    /\ AuthStatus(req.token) = "next"
    /\ ~ \E r \in subscriptions : r.id = req.id /\ r.user_id = req.token

BreakdownSum(statusBreakdown) ==
    (IF "pending" \in DOMAIN statusBreakdown THEN statusBreakdown["pending"] ELSE 0)
    + (IF "delivered" \in DOMAIN statusBreakdown THEN statusBreakdown["delivered"] ELSE 0)
    + (IF "failed" \in DOMAIN statusBreakdown THEN statusBreakdown["failed"] ELSE 0)

\* C36: in every result of getWebhookStats that is not null the counts of
\* statusBreakdown sum to totalEvents and recentEvents is at most totalEvents,
\* whatever was inserted, updated or purged while the queries ran.
C36_StatsAddUp ==
    StatsAt({"returned"}) =>
        /\ BreakdownSum(result.statusBreakdown) = result.totalEvents
        /\ result.recentEvents <= result.totalEvents

====
